---- MODULE Spec2Model ----
(***************************************************************************)
(* A model of bioma_tool's SSE transport (src/bioma_tool/src/transport/   *)
(* sse.rs): the server side (client registry, per-connection writer       *)
(* tasks, send, close) and the client side (reader task, retry loop,      *)
(* send).  Texts are TLA+ strings, handled character by character with    *)
(* Len, SubSeq and \o.                                                     *)
(***************************************************************************)
EXTENDS Integers, Sequences, FiniteSets, TLC

(***************************************************************************)
(* Bounds of the model.                                                    *)
(***************************************************************************)
\* calls made to the server during a run: GET / requests, send calls and
\* close calls together
MaxCalls == 4

\* SseServerConfig.channel_capacity, the size of both per-connection channels
channel_capacity == 1

\* SseServerConfig.endpoint, the bind address echoed in the endpoint URL
endpoint == "b:1"

(***************************************************************************)
(* Text helpers (str::strip_prefix, str::find).                            *)
(***************************************************************************)
starts_with(s, p) == Len(s) >= Len(p) /\ SubSeq(s, 1, Len(p)) = p

\* a strip_prefix that keeps the last character of the prefix
strip_prefix_KeepLast(s, p) == SubSeq(s, Len(p), Len(s))

\* str::strip_prefix: the rest of s after p; only used when starts_with(s, p)
strip_prefix(s, p) == SubSeq(s, Len(p) + 1, Len(s))

\* str::find: 0-based index of the first occurrence of pat in s, -1 for None
find(s, pat) ==
    LET at == {i \in 0..(Len(s) - Len(pat)) : SubSeq(s, i + 1, i + Len(pat)) = pat} IN
    IF at = {} THEN -1 ELSE CHOOSE i \in at : \A j \in at : i <= j

(***************************************************************************)
(* ClientId and JsonRpcMessage, the two opaque payload types.              *)
(***************************************************************************)
\* ClientId::new(): the n-th accepted stream gets the fresh id n
ClientIds == 1..MaxCalls

\* ClientId::to_string: the textual (UUID) rendering of an id
ClientIdToString(id) == "u" \o SubSeq("0123456789", id + 1, id + 1)

\* the messages callers send: message n is the one with JSON-RPC id n
Messages == 1..MaxCalls

\* a message that carries a text with a character outside ASCII.  Texts
\* stand for byte strings: "^" and "~" are the two bytes of one two-byte
\* UTF-8 character, and "?" is U+FFFD, the replacement character
TextMessage == 0

\* serde_json::to_string(message): one line of JSON, text outside ASCII
\* written as it is
MessageJson(m) ==
    IF m = TextMessage THEN "{\"id\":0,\"method\":\"^~\"}"
    ELSE "{\"id\":" \o SubSeq("0123456789", m + 1, m + 1) \o "}"

(***************************************************************************)
(* SseEvent and its wire format.                                           *)
(***************************************************************************)
new_transport(message) ==
    [tag |-> "Transport", message |-> message, event_type |-> "message", text |-> ""]

transport_with_event_type(message, event_type) ==
    [tag |-> "Transport", message |-> message, event_type |-> event_type, text |-> ""]

EndpointEvent(url) ==
    [tag |-> "Endpoint", message |-> 0, event_type |-> "", text |-> url]

ShutdownEvent(reason) ==
    [tag |-> "Shutdown", message |-> 0, event_type |-> "", text |-> reason]

to_sse_event(ev) ==
    CASE ev.tag = "Transport" ->
            "event: " \o ev.event_type \o "\ndata: " \o MessageJson(ev.message) \o "\n\n"
      [] ev.tag = "Endpoint" -> "event: endpoint\ndata: " \o ev.text \o "\n\n"
      [] ev.tag = "Shutdown" -> "event: shutdown\ndata: " \o ev.text \o "\n\n"

\* an endpoint URL that leaves the client id out
endpoint_url_NoId(client_id) == "http://" \o endpoint \o "/message/"

\* format!("http://{}/message/{}", endpoint, client_id.to_string())
endpoint_url(client_id) ==
    "http://" \o endpoint \o "/message/" \o ClientIdToString(client_id)

ShutdownReason == "Server is shutting down"

(***************************************************************************)
(* Parsing frames.                                                         *)
(***************************************************************************)
\* Option<String>
None == [some |-> FALSE, val |-> ""]
Some(v) == [some |-> TRUE, val |-> v]

\* a line without the "\r" of a "\r\n" ending
strip_cr(line) ==
    IF Len(line) > 0 /\ SubSeq(line, Len(line), Len(line)) = "\r"
    THEN SubSeq(line, 1, Len(line) - 1)
    ELSE line

\* str::lines: the lines of s, each without its "\n" or "\r\n" ending; a
\* last line needs no ending
RECURSIVE lines(_)
lines(s) ==
    IF s = "" THEN <<>>
    ELSE LET i == find(s, "\n") IN
         IF i = -1 THEN <<s>>
         ELSE <<strip_cr(SubSeq(s, 1, i))>> \o lines(SubSeq(s, i + 2, Len(s)))

\* a loop that keeps the first occurrence of a field
RECURSIVE parse_lines_FirstWins(_, _)
parse_lines_FirstWins(ls, acc) ==
    IF ls = <<>> THEN acc
    ELSE LET line == Head(ls) IN
         parse_lines_FirstWins(Tail(ls),
             IF starts_with(line, "data: ")
             THEN (IF acc.data.some THEN acc
                   ELSE [acc EXCEPT !.data = Some(strip_prefix(line, "data: "))])
             ELSE IF starts_with(line, "event: ")
                  THEN (IF acc.event_type.some THEN acc
                        ELSE [acc EXCEPT !.event_type = Some(strip_prefix(line, "event: "))])
                  ELSE acc)

\* the loop of parse_sse_event over the lines left, from the fields found so far
RECURSIVE parse_lines(_, _)
parse_lines(ls, acc) ==
    IF ls = <<>> THEN acc
    ELSE LET line == Head(ls) IN
         parse_lines(Tail(ls),
             IF starts_with(line, "data: ")
             THEN [acc EXCEPT !.data = Some(strip_prefix(line, "data: "))]
             ELSE IF starts_with(line, "event: ")
                  THEN [acc EXCEPT !.event_type = Some(strip_prefix(line, "event: "))]
                  ELSE acc)

parse_sse_event(event) == parse_lines(lines(event), [event_type |-> None, data |-> None])

\* serde_json::from_str::<JsonRpcMessage>(data): Some(message), or None for
\* a text that is no message's JSON
MessageFromJson(data) ==
    IF \E m \in Messages \cup {TextMessage} : MessageJson(m) = data
    THEN [ok |-> TRUE,
          message |-> CHOOSE m \in Messages \cup {TextMessage} : MessageJson(m) = data]
    ELSE [ok |-> FALSE, message |-> 0]

\* String::from_utf8_lossy: a complete character is kept, a byte of a
\* character without its other byte becomes U+FFFD
RECURSIVE from_utf8_lossy(_)
from_utf8_lossy(bytes) ==
    LET lead == find(bytes, "^")
        cont == find(bytes, "~")
        i == IF lead = -1 THEN cont
             ELSE IF cont = -1 THEN lead
                  ELSE IF lead < cont THEN lead ELSE cont
    IN  IF i = -1 THEN bytes
        ELSE IF i + 2 <= Len(bytes) /\ SubSeq(bytes, i + 1, i + 2) = "^~"
             THEN SubSeq(bytes, 1, i + 2) \o from_utf8_lossy(SubSeq(bytes, i + 3, Len(bytes)))
             ELSE SubSeq(bytes, 1, i) \o "?" \o from_utf8_lossy(SubSeq(bytes, i + 2, Len(bytes)))

(***************************************************************************)
(* State.                                                                  *)
(***************************************************************************)
VARIABLES
    \* server mode
    clients,      \* the registry: the ids whose sender the map holds
    registry_lock,\* the holder of the registry mutex
    next_id,      \* how many GET / streams were accepted
    client_rx,    \* per id, the events queued in its mpsc channel
    writer,       \* per id, the state of its writer task
    held,         \* per id, the event its writer received and is writing
    stream,       \* per id, the frames its writer wrote to the adapter channel
    taken,        \* per id, how many frames the HTTP body has read
    send_calls,   \* per server send call, its progress and result
    close_calls,  \* per server close call, its progress
    completed     \* per id, the sends to it that returned Ok, in order (history)

VARIABLES
    \* client mode
    message_endpoint, \* Option<String>: the URL client sends are POSTed to
    task,             \* the background task: its position and its result
    attempts,         \* connection attempts made
    last_error,       \* the error of the most recent failed attempt, "" for None
    sleeps,           \* retry_delay sleeps performed
    buffer,           \* the rolling text buffer of the current attempt
    chunks_read,      \* chunks read in the current attempt
    inbound,          \* the messages forwarded to the inbound sink
    sink_open,        \* whether the inbound sink's receiver is alive
    posts,            \* the HTTP POSTs issued by client sends
    send_results,     \* the results of the client sends made, in order
    close_results     \* the results of the client-mode close calls, in order

VARIABLES
    \* server mode, the HTTP side
    response,         \* the status of the most recent HTTP response, 0 for none
    on_message,       \* the SseMessages forwarded to the server's inbound sink
    on_message_open   \* whether the receiver of that sink is alive

VARIABLES
    \* the rolling-buffer codec of connect_to_sse, fed one byte stream
    codec_events,     \* the events the stream was serialized from
    codec_wire,       \* the bytes of the stream not yet read
    codec_buffer,     \* the rolling text buffer
    codec_parsed      \* the events parsed so far, in order

VARIABLES
    \* one call of parse_sse_event
    event_lines,      \* the lines of the event text handed to it
    parsed_event      \* the ParsedSseEvent it returned

VARIABLES
    \* a behaviour tree under test and the telemetry it sent
    bt_nodes,         \* the nodes added: id -> [kind, child]
    bt_status,        \* the BehaviorStatus of each node
    bt_pc,            \* the call in progress: [op, phase, path], path the nodes entered
    telemetry,        \* the BehaviorTelemetry received, in order
    run_status,       \* what run() returned, "" before it returns
    shutdown_status,  \* what shutdown() returned, "" before it returns
    elapsed           \* the time slept so far, in seconds

server_vars == <<clients, registry_lock, next_id, client_rx, writer, held, stream,
                 taken, send_calls, close_calls, completed>>

client_vars == <<message_endpoint, task, attempts, last_error, sleeps, buffer,
                 chunks_read, inbound, sink_open, posts, send_results, close_results>>

http_vars == <<response, on_message, on_message_open>>

codec_vars == <<codec_events, codec_wire, codec_buffer, codec_parsed>>

parse_vars == <<event_lines, parsed_event>>

bt_vars == <<bt_nodes, bt_status, bt_pc, telemetry, run_status, shutdown_status, elapsed>>

vars == <<server_vars, client_vars, http_vars, codec_vars, parse_vars, bt_vars>>

SendIds == 1..MaxCalls
CloseIds == 1..MaxCalls

NoHolder == <<"free", 0>>
SendHolder(p) == <<"send", p>>
CloseHolder(q) == <<"close", q>>

NoEvent == [tag |-> "None", message |-> 0, event_type |-> "", text |-> ""]

\* the metadata values callers pass to send: {"client_id": <id>}, an object
\* without client_id, or one whose client_id is no UUID
MetaValues ==
    {[kind |-> "ok", client_id |-> c] : c \in ClientIds}
        \cup {[kind |-> "absent", client_id |-> 1], [kind |-> "malformed", client_id |-> 1]}

IdleSend ==
    [pc |-> "idle", meta |-> [kind |-> "ok", client_id |-> 1], tx_failed |-> FALSE,
     result |-> ""]
IdleClose == [pc |-> "idle", pending |-> {}, result |-> ""]

\* new_server: an empty registry, nothing accepted
ServerInit ==
    /\ clients = {}
    /\ registry_lock = NoHolder
    /\ next_id = 0
    /\ client_rx = [c \in ClientIds |-> <<>>]
    /\ writer = [c \in ClientIds |-> "Unborn"]
    /\ held = [c \in ClientIds |-> NoEvent]
    /\ stream = [c \in ClientIds |-> <<>>]
    /\ taken = [c \in ClientIds |-> 0]
    /\ send_calls = [p \in SendIds |-> IdleSend]
    /\ close_calls = [q \in CloseIds |-> IdleClose]
    /\ completed = [c \in ClientIds |-> <<>>]

\* the calls made so far
CallsMade ==
    next_id + Cardinality({p \in SendIds : send_calls[p].pc # "idle"})
            + Cardinality({q \in CloseIds : close_calls[q].pc # "idle"})

Closed(c) == writer[c] \in {"ClosedAdapter", "ClosedDrained"}

\* a try_send in place of send: a full channel drops the event with an error
tx_send_NoWait(queue, event, rx_dropped) ==
    IF rx_dropped \/ Len(queue) >= channel_capacity
    THEN [ready |-> TRUE, queue |-> queue, failed |-> TRUE]
    ELSE [ready |-> TRUE, queue |-> Append(queue, event), failed |-> FALSE]

\* mpsc::Sender::send on a channel holding `queue`: an error when the receiver
\* is dropped, not ready (the caller waits) while the channel is full, and the
\* event enqueued otherwise
tx_send(queue, event, rx_dropped) ==
    IF rx_dropped THEN [ready |-> TRUE, queue |-> queue, failed |-> TRUE]
    ELSE IF Len(queue) < channel_capacity
         THEN [ready |-> TRUE, queue |-> Append(queue, event), failed |-> FALSE]
         ELSE [ready |-> FALSE, queue |-> queue, failed |-> FALSE]

\* a sender of c's channel exists: in the registry, or in a close call's drain
SenderAlive(c) == c \in clients \/ \E q \in CloseIds : c \in close_calls[q].pending

\* the adapter channel (response_tx) has a free slot
AdapterHasRoom(c) == Len(stream[c]) - taken[c] < channel_capacity

(***************************************************************************)
(* GET /: register a fresh client and spawn its writer task.               *)
(***************************************************************************)
\* a GET handler that spawns the writer without registering the client
RegistryInsert_Skip(map, client_id) == map

\* clients_map.insert(client_id, client_tx)
RegistryInsert(map, client_id) == map \cup {client_id}

\* an accept loop that ends with the first close
listener_accepts_UntilClose(closes) == \A q \in DOMAIN closes : closes[q].pc = "idle"

\* loop { listener.accept().await ... }: the loop has no exit, whatever
\* close calls were made
listener_accepts(closes) == TRUE

GetStream ==
    /\ CallsMade < MaxCalls
    /\ listener_accepts(close_calls)
    /\ registry_lock = NoHolder
    /\ LET client_id == next_id + 1 IN
        /\ next_id' = client_id
        /\ clients' = RegistryInsert(clients, client_id)
        /\ writer' = [writer EXCEPT ![client_id] = "Opening"]
    /\ response' = 200
    /\ UNCHANGED <<registry_lock, client_rx, held, stream, taken, send_calls,
                   close_calls, completed>>
    /\ UNCHANGED <<on_message, on_message_open>>
    /\ UNCHANGED <<client_vars, codec_vars, parse_vars, bt_vars>>

(***************************************************************************)
(* The writer task of one connection.                                      *)
(***************************************************************************)
\* the first frame the writer task writes
InitialEvent(client_id) == EndpointEvent(endpoint_url(client_id))

\* response_tx.send(endpoint frame): it fails (gone) when the client has
\* disconnected and the adapter channel's receiver is dropped; the writer returns
WriterOpen(c, gone) ==
    /\ writer[c] = "Opening"
    /\ IF gone
       THEN /\ writer' = [writer EXCEPT ![c] = "ClosedAdapter"]
            /\ client_rx' = [client_rx EXCEPT ![c] = <<>>]
            /\ UNCHANGED stream
       ELSE /\ AdapterHasRoom(c)
            /\ stream' = [stream EXCEPT ![c] = Append(@, to_sse_event(InitialEvent(c)))]
            /\ writer' = [writer EXCEPT ![c] = "Streaming"]
            /\ UNCHANGED client_rx
    /\ UNCHANGED <<clients, registry_lock, next_id, held, taken,
                   send_calls, close_calls, completed>>
    /\ UNCHANGED <<client_vars, http_vars, codec_vars, parse_vars, bt_vars>>

\* a receiver that reports None as soon as the senders are gone
recv_none_Early(queue, sender_alive) == ~sender_alive

\* mpsc::Receiver::recv returns None: every sender is dropped and nothing is
\* queued any more
recv_none(queue, sender_alive) == queue = <<>> /\ ~sender_alive

\* client_rx.recv().await: the next queued event, or None, which ends the loop
WriterRecv(c) ==
    /\ writer[c] = "Streaming"
    /\ held[c] = NoEvent
    /\ IF recv_none(client_rx[c], SenderAlive(c))
       THEN /\ writer' = [writer EXCEPT ![c] = "ClosedDrained"]
            /\ UNCHANGED <<held, client_rx>>
       ELSE /\ client_rx[c] # <<>>
            /\ held' = [held EXCEPT ![c] = Head(client_rx[c])]
            /\ client_rx' = [client_rx EXCEPT ![c] = Tail(@)]
            /\ UNCHANGED writer
    /\ UNCHANGED <<clients, registry_lock, next_id, stream, taken,
                   send_calls, close_calls, completed>>
    /\ UNCHANGED <<client_vars, http_vars, codec_vars, parse_vars, bt_vars>>

\* response_tx.send(frame): break when it fails (gone)
WriterSend(c, gone) ==
    /\ writer[c] = "Streaming"
    /\ held[c] # NoEvent
    /\ IF gone
       THEN /\ writer' = [writer EXCEPT ![c] = "ClosedAdapter"]
            /\ client_rx' = [client_rx EXCEPT ![c] = <<>>]
            /\ UNCHANGED stream
       ELSE /\ AdapterHasRoom(c)
            /\ stream' = [stream EXCEPT ![c] = Append(@, to_sse_event(held[c]))]
            /\ UNCHANGED <<writer, client_rx>>
    /\ held' = [held EXCEPT ![c] = NoEvent]
    /\ UNCHANGED <<clients, registry_lock, next_id, taken,
                   send_calls, close_calls, completed>>
    /\ UNCHANGED <<client_vars, http_vars, codec_vars, parse_vars, bt_vars>>

\* the HTTP body reads the next frame from the adapter channel
TakeFrame(c) ==
    /\ writer[c] # "ClosedAdapter"
    /\ taken[c] < Len(stream[c])
    /\ taken' = [taken EXCEPT ![c] = @ + 1]
    /\ UNCHANGED <<clients, registry_lock, next_id, client_rx, writer, held, stream,
                   send_calls, close_calls, completed>>
    /\ UNCHANGED <<client_vars, http_vars, codec_vars, parse_vars, bt_vars>>

(***************************************************************************)
(* send in server mode.                                                    *)
(***************************************************************************)
\* a metadata check that lets every value through
MetadataOk_Lenient(meta) == TRUE

\* serde_json::from_value::<SseMetadata>(metadata).ok()
MetadataOk(meta) == meta.kind = "ok"

\* a send routed to the first client, whatever the metadata names
TargetOf_First(meta) == 1

\* the client a send is routed to: sse_metadata.client_id
TargetOf(meta) == meta.client_id

\* a lookup that finds a sender under every id
LookupSender_Any(map, client_id) == TRUE

\* clients_map.get(client_id) is Some
LookupSender(map, client_id) == client_id \in map

\* a send that drops the guard before it awaits tx.send
LockAfterLookup_Release(holder) == NoHolder

\* what a holder of the registry mutex does with it once clients_map.get has
\* found the sender: send_to_client keeps it while tx.send is awaited
LockAfterLookup(holder) == holder

\* send starts: bad metadata fails at once; otherwise send_to_client takes the
\* registry mutex (clients.lock().await) and looks the sender up
\* (clients_map.get(client_id)): an unknown id fails, dropping the guard
SendCall(p, meta) ==
    /\ CallsMade < MaxCalls
    /\ send_calls[p].pc = "idle"
    /\ \A o \in SendIds : o < p => send_calls[o].pc # "idle"
    /\ IF ~MetadataOk(meta)
       THEN /\ send_calls' = [send_calls EXCEPT ![p] =
                  [IdleSend EXCEPT !.pc = "done", !.meta = meta, !.result = "InvalidMetadata"]]
            /\ UNCHANGED registry_lock
       ELSE /\ registry_lock = NoHolder
            /\ IF LookupSender(clients, TargetOf(meta))
               THEN /\ registry_lock' = LockAfterLookup(SendHolder(p))
                    /\ send_calls' = [send_calls EXCEPT ![p] =
                          [IdleSend EXCEPT !.pc = "send", !.meta = meta]]
               ELSE /\ send_calls' = [send_calls EXCEPT ![p] =
                          [IdleSend EXCEPT !.pc = "done", !.meta = meta, !.result = "UnknownClient"]]
                    /\ UNCHANGED registry_lock
    /\ UNCHANGED <<clients, next_id, client_rx, writer, held, stream, taken,
                   close_calls, completed>>
    /\ UNCHANGED <<client_vars, http_vars, codec_vars, parse_vars, bt_vars>>

\* the result of send_to_client once tx.send has returned: a failed tx.send is
\* only logged
SendResult(tx_send_failed) == "Ok"

\* tx.send(event).await on c's channel: fails when the receiver is dropped,
\* waits (not ready) while the channel is full, enqueues otherwise; then the
\* guard is dropped and send returns
SendDeliver(p) ==
    LET c == TargetOf(send_calls[p].meta)
        r == tx_send(client_rx[c], new_transport(p), Closed(c))
    IN
    /\ send_calls[p].pc = "send"
    /\ r.ready
    /\ client_rx' = [client_rx EXCEPT ![c] = r.queue]
    /\ send_calls' = [send_calls EXCEPT ![p].pc = "done",
                                        ![p].tx_failed = r.failed,
                                        ![p].result = SendResult(r.failed)]
    /\ completed' = [completed EXCEPT ![c] =
          IF SendResult(r.failed) = "Ok"
          THEN Append(@, [message |-> p, queued |-> ~r.failed])
          ELSE @]
    /\ registry_lock' = IF registry_lock = SendHolder(p) THEN NoHolder ELSE registry_lock
    /\ UNCHANGED <<clients, next_id, writer, held, stream, taken, close_calls>>
    /\ UNCHANGED <<client_vars, http_vars, codec_vars, parse_vars, bt_vars>>

(***************************************************************************)
(* close in server mode.                                                   *)
(***************************************************************************)
\* a close that iterates the map without emptying it
DrainedMap_Kept(map) == map

\* what clients_map.drain() leaves in the map
DrainedMap(map) == {}

\* clients.lock().await, then clients_map.drain(): the map is emptied and the
\* drained senders are held by the iterator
CloseDrain(q) ==
    /\ CallsMade < MaxCalls
    /\ close_calls[q].pc = "idle"
    /\ \A o \in CloseIds : o < q => close_calls[o].pc # "idle"
    /\ registry_lock = NoHolder
    /\ clients' = DrainedMap(clients)
    /\ IF clients = {}
       THEN /\ close_calls' = [close_calls EXCEPT ![q].pc = "done", ![q].result = "Ok"]
            /\ UNCHANGED registry_lock
       ELSE /\ close_calls' = [close_calls EXCEPT ![q].pc = "drain", ![q].pending = clients]
            /\ registry_lock' = CloseHolder(q)
    /\ UNCHANGED <<next_id, client_rx, writer, held, stream, taken,
                   send_calls, completed>>
    /\ UNCHANGED <<client_vars, http_vars, codec_vars, parse_vars, bt_vars>>

\* a close that fails when a shutdown event cannot be delivered
CloseResult_Failing(tx_send_failed) == IF tx_send_failed THEN "ClientGone" ELSE "Ok"

\* the result of close after the drain loop: a failed tx.send is only logged
CloseResult(tx_send_failed) == "Ok"

\* one iteration of the drain loop: tx.send(shutdown).await, failure ignored,
\* then tx is dropped; after the last one the guard is dropped and close returns
CloseSend(q, c) ==
    LET r == tx_send(client_rx[c], ShutdownEvent(ShutdownReason), Closed(c)) IN
    /\ close_calls[q].pc = "drain"
    /\ c \in close_calls[q].pending
    /\ r.ready
    /\ client_rx' = [client_rx EXCEPT ![c] = r.queue]
    /\ IF close_calls[q].pending = {c}
       THEN /\ close_calls' = [close_calls EXCEPT ![q].pc = "done", ![q].pending = {},
                                                  ![q].result = CloseResult(r.failed)]
            /\ registry_lock' = NoHolder
       ELSE /\ close_calls' = [close_calls EXCEPT ![q].pending = @ \ {c}]
            /\ UNCHANGED registry_lock
    /\ UNCHANGED <<clients, next_id, writer, held, stream, taken, send_calls,
                   completed>>
    /\ UNCHANGED <<client_vars, http_vars, codec_vars, parse_vars, bt_vars>>

(***************************************************************************)
(* Client mode: configuration and inputs.                                  *)
(***************************************************************************)
\* SseClientConfig.retry_count
retry_count == 2

\* chunks the byte stream of one attempt yields before it ends
MaxChunks == 2
\* client-mode send calls made during a run
MaxClientSends == 1

\* serde_json::from_str::<SystemMessageType>(data): the enum is externally
\* tagged, {"Endpoint":"<url>"} or {"Shutdown":{"reason":"<text>"}}; any other
\* text is an error
ends_with(s, p) == Len(s) >= Len(p) /\ SubSeq(s, Len(s) - Len(p) + 1, Len(s)) = p

JsonTagged(data, open, close) ==
    /\ starts_with(data, open)
    /\ ends_with(data, close)
    /\ Len(data) >= Len(open) + Len(close)
    /\ find(SubSeq(data, Len(open) + 1, Len(data) - Len(close)), "\"") = -1

JsonInner(data, open, close) == SubSeq(data, Len(open) + 1, Len(data) - Len(close))

SystemMessageFromJson(data) ==
    IF JsonTagged(data, "{\"Endpoint\":\"", "\"}")
    THEN [ok |-> TRUE, tag |-> "Endpoint",
          text |-> JsonInner(data, "{\"Endpoint\":\"", "\"}")]
    ELSE IF JsonTagged(data, "{\"Shutdown\":{\"reason\":\"", "\"}}")
         THEN [ok |-> TRUE, tag |-> "Shutdown",
               text |-> JsonInner(data, "{\"Shutdown\":{\"reason\":\"", "\"}}")]
         ELSE [ok |-> FALSE, tag |-> "", text |-> ""]

\* parse_system_message(..).ok().flatten(): the decoded system message, if any
parse_system_message(parsed) ==
    IF parsed.data.some THEN SystemMessageFromJson(parsed.data.val)
    ELSE [ok |-> FALSE, tag |-> "", text |-> ""]

\* a decoder that yields a message for any data
parse_json_rpc_Lenient(parsed) ==
    IF parsed.data.some /\ MessageFromJson(parsed.data.val).ok
    THEN MessageFromJson(parsed.data.val)
    ELSE [ok |-> TRUE, message |-> 0]

\* parse_json_rpc(..).ok().flatten(): the decoded message, if any
parse_json_rpc(parsed) ==
    IF parsed.data.some THEN MessageFromJson(parsed.data.val)
    ELSE [ok |-> FALSE, message |-> 0]

\* the frames a server writes, exactly as to_sse_event serializes them
ServerEndpointFrame == to_sse_event(EndpointEvent(endpoint_url(1)))
ServerMessageFrame == to_sse_event(new_transport(1))
ServerShutdownFrame == to_sse_event(ShutdownEvent(ShutdownReason))

\* an endpoint frame whose data is the JSON of SystemMessageType::Endpoint
TaggedEndpointFrame == "event: endpoint\ndata: {\"Endpoint\":\"http://b:1/message/u2\"}\n\n"

\* the texts one read of the byte stream may yield: whole frames, frames no
\* server writes, a frame cut inside its "\n\n", and two frames in one chunk
\* (a message before a shutdown, and after it)
Chunks ==
    { ServerEndpointFrame, ServerMessageFrame, ServerShutdownFrame, TaggedEndpointFrame,
      "event: ping\ndata: x\n\n",
      "event: message\ndata: not-json\n\n",
      "data: {\"id\":2}\n\n",
      "event: message\ndata: {\"id\":2}\n",
      "\n",
      ServerMessageFrame \o ServerShutdownFrame,
      ServerShutdownFrame \o ServerMessageFrame }

ClientInit ==
    /\ message_endpoint = None
    /\ task = [pc |-> "idle", result |-> ""]
    /\ attempts = 0
    /\ last_error = ""
    /\ sleeps = 0
    /\ buffer = ""
    /\ chunks_read = 0
    /\ inbound = <<>>
    /\ sink_open = TRUE
    /\ posts = <<>>
    /\ send_results = <<>>
    /\ close_results = <<>>

(***************************************************************************)
(* Client mode: the retry loop of start and connect_to_sse.                *)
(***************************************************************************)
\* a loop that gives up at the first error
AttemptFails_GiveUp(e) ==
    /\ last_error' = e
    /\ task' = [pc |-> "done", result |-> e]

\* a loop that makes one attempt too many
may_attempt_OffByOne(n) == n <= retry_count

\* while attempts < retry_count
may_attempt(n) == n < retry_count

\* Err(e) from connect_to_sse: the loop records it and sleeps
AttemptFails(e) ==
    /\ last_error' = e
    /\ task' = [task EXCEPT !.pc = "sleeping"]

\* the loop head: with attempts left, attempts += 1 and GET sse_endpoint; the
\* request fails, or the status is not 2xx, or the stream opens.  With none
\* left the task ends with the last error
Connect(outcome) ==
    /\ task.pc = "idle"
    /\ IF may_attempt(attempts)
       THEN /\ attempts' = attempts + 1
            /\ buffer' = ""
            /\ chunks_read' = 0
            /\ CASE outcome = "refused" -> AttemptFails("ConnectionError")
                 [] outcome = "status" -> AttemptFails("HttpStatus")
                 [] outcome = "ok" ->
                        /\ task' = [task EXCEPT !.pc = "reading"]
                        /\ UNCHANGED last_error
       ELSE /\ outcome = "ok"
            /\ task' = [pc |-> "done",
                        result |-> IF last_error = "" THEN "ConnectFailed" ELSE last_error]
            /\ UNCHANGED <<attempts, buffer, chunks_read, last_error>>
    /\ UNCHANGED <<message_endpoint, sleeps, inbound, sink_open, posts,
                   send_results>>
    /\ UNCHANGED <<close_results, server_vars, http_vars, codec_vars, parse_vars, bt_vars>>

\* a loop that does not sleep when no attempt is left
Sleep_NotAfterLast ==
    /\ task.pc = "sleeping"
    /\ sleeps' = IF may_attempt(attempts) THEN sleeps + 1 ELSE sleeps
    /\ task' = [task EXCEPT !.pc = "idle"]
    /\ UNCHANGED <<message_endpoint, attempts, last_error, buffer, chunks_read,
                   inbound, sink_open, posts, send_results>>
    /\ UNCHANGED <<close_results, server_vars, http_vars, codec_vars, parse_vars, bt_vars>>

\* tokio::time::sleep(retry_delay) after a failed attempt
Sleep ==
    /\ task.pc = "sleeping"
    /\ sleeps' = sleeps + 1
    /\ task' = [task EXCEPT !.pc = "idle"]
    /\ UNCHANGED <<message_endpoint, attempts, last_error, buffer, chunks_read,
                   inbound, sink_open, posts, send_results>>
    /\ UNCHANGED <<close_results, server_vars, http_vars, codec_vars, parse_vars, bt_vars>>

\* the buffer holds a complete event
HasEvent(buf) == find(buf, "\n\n") # -1

\* stream.next().await once the buffered events are processed: a chunk is
\* appended to the buffer
ReadChunkFrom(texts) ==
    /\ task.pc = "reading"
    /\ chunks_read < MaxChunks
    /\ ~HasEvent(buffer)
    /\ chunks_read' = chunks_read + 1
    /\ \E chunk \in texts : buffer' = buffer \o from_utf8_lossy(chunk)
    /\ UNCHANGED <<message_endpoint, task, attempts, last_error, sleeps,
                   inbound, sink_open, posts, send_results>>
    /\ UNCHANGED <<close_results, server_vars, http_vars, codec_vars, parse_vars, bt_vars>>

ReadChunk == ReadChunkFrom(Chunks)

\* the error connect_to_sse returns when the stream stops: a failed read, or
\* the end of the stream without a shutdown event
StreamError(outcome) == IF outcome = "io_error" THEN "IO" ELSE "ClosedUnexpectedly"

ReadEnds ==
    /\ task.pc = "reading"
    /\ ~HasEvent(buffer)
    /\ \E outcome \in {"io_error", "eof"} : AttemptFails(StreamError(outcome))
    /\ UNCHANGED <<message_endpoint, attempts, sleeps, buffer, chunks_read,
                   inbound, sink_open, posts, send_results>>
    /\ UNCHANGED <<close_results, server_vars, http_vars, codec_vars, parse_vars, bt_vars>>

\* a reader that reads on after a shutdown event
ShutdownResult_Continue(t) == t

\* the shutdown branch: connect_to_sse returns Ok(()) and the retry loop
\* returns Ok(()) in turn
ShutdownResult(t) == [pc |-> "done", result |-> "Ok"]

\* an update that keeps the first URL advertised
EndpointUpdate_KeepFirst(parsed, current) ==
    LET sys == parse_system_message(parsed) IN
    IF sys.ok /\ sys.tag = "Endpoint" /\ ~current.some THEN Some(sys.text) ELSE current

\* the value message_endpoint takes when an endpoint event is routed
EndpointUpdate(parsed, current) ==
    LET sys == parse_system_message(parsed) IN
    IF sys.ok /\ sys.tag = "Endpoint" THEN Some(sys.text) ELSE current

\* the match on the event type of a parsed event
RouteEvent(parsed) ==
    CASE parsed.event_type = Some("endpoint") ->
            /\ message_endpoint' = EndpointUpdate(parsed, message_endpoint)
            /\ UNCHANGED <<task, last_error, inbound>>
      [] parsed.event_type = Some("message") ->
            /\ IF parse_json_rpc(parsed).ok
               THEN IF sink_open
                    THEN /\ inbound' = Append(inbound, parse_json_rpc(parsed).message)
                         /\ UNCHANGED <<task, last_error>>
                    ELSE /\ AttemptFails("ChannelClosed")
                         /\ UNCHANGED inbound
               ELSE UNCHANGED <<task, last_error, inbound>>
            /\ UNCHANGED message_endpoint
      [] parsed.event_type = Some("shutdown") ->
            /\ task' = ShutdownResult(task)
            /\ UNCHANGED <<message_endpoint, last_error, inbound>>
      [] OTHER -> UNCHANGED <<message_endpoint, task, last_error, inbound>>

\* one turn of the inner loop: cut the first event off the buffer (through its
\* "\n\n"), parse it and route it
ProcessEvent ==
    /\ task.pc = "reading"
    /\ \E pos \in {find(buffer, "\n\n")} :
          /\ pos # -1
          /\ buffer' = SubSeq(buffer, pos + 3, Len(buffer))
          /\ \E parsed \in {parse_sse_event(SubSeq(buffer, 1, pos + 2))} : RouteEvent(parsed)
    /\ UNCHANGED <<attempts, sleeps, chunks_read, sink_open, posts, send_results>>
    /\ UNCHANGED <<close_results, server_vars, http_vars, codec_vars, parse_vars, bt_vars>>

\* the layer above drops the receiver of the inbound sink
SinkClose ==
    /\ sink_open
    /\ sink_open' = FALSE
    /\ UNCHANGED <<message_endpoint, task, attempts, last_error, sleeps, buffer,
                   chunks_read, inbound, posts, send_results>>
    /\ UNCHANGED <<close_results, server_vars, http_vars, codec_vars, parse_vars, bt_vars>>

(***************************************************************************)
(* send in client mode.                                                    *)
(***************************************************************************)
\* the result of a POST: 2xx, another status, or a network error
PostResult(outcome) ==
    CASE outcome = "2xx" -> "Ok"
      [] outcome = "status" -> "HttpStatus"
      [] outcome = "network" -> "TransportError"

\* a send that POSTs without an advertised URL, to the server's stream URL
url_for_send_Fallback(guard) ==
    [ok |-> TRUE, url |-> IF guard.some THEN guard.val ELSE "http://" \o endpoint \o "/"]

\* the match on the message_endpoint guard: the URL to POST to, or the
\* "No endpoint URL available yet" error
url_for_send(guard) ==
    IF guard.some THEN [ok |-> TRUE, url |-> guard.val] ELSE [ok |-> FALSE, url |-> ""]

\* read message_endpoint under its mutex; None fails, otherwise the message
\* is serialized and POSTed to the URL
ClientSend(m, outcome) ==
    /\ Len(send_results) < MaxClientSends
    /\ IF url_for_send(message_endpoint).ok
       THEN /\ posts' = Append(posts, [url |-> url_for_send(message_endpoint).url,
                                       body |-> MessageJson(m)])
            /\ send_results' = Append(send_results, PostResult(outcome))
       ELSE /\ outcome = "2xx"
            /\ send_results' = Append(send_results, "EndpointNotAdvertised")
            /\ UNCHANGED posts
    /\ UNCHANGED <<message_endpoint, task, attempts, last_error, sleeps, buffer,
                   chunks_read, inbound, sink_open>>
    /\ UNCHANGED <<close_results, server_vars, http_vars, codec_vars, parse_vars, bt_vars>>

\* close in client mode: it logs the request and returns Ok(()); the reader
\* task and message_endpoint are left as they are
MaxCloses == 1

ClientClose ==
    /\ Len(close_results) < MaxCloses
    /\ close_results' = Append(close_results, "Ok")
    /\ UNCHANGED <<message_endpoint, task, attempts, last_error, sleeps, buffer,
                   chunks_read, inbound, sink_open, posts, send_results>>
    /\ UNCHANGED <<server_vars, http_vars, codec_vars, parse_vars, bt_vars>>

ClientNext ==
    \/ \E outcome \in {"refused", "status", "ok"} : Connect(outcome)
    \/ Sleep
    \/ ReadChunk
    \/ ReadEnds
    \/ ProcessEvent
    \/ SinkClose
    \/ \E m \in {1}, outcome \in {"2xx", "status", "network"} : ClientSend(m, outcome)

(***************************************************************************)
(* The server specification.                                               *)
(***************************************************************************)
\* the server's inbound sink is open and empty, nothing answered yet
HttpInit ==
    /\ response = 0
    /\ on_message = <<>>
    /\ on_message_open = TRUE

\* no stream yet
CodecInit ==
    /\ codec_events = <<>>
    /\ codec_wire = ""
    /\ codec_buffer = ""
    /\ codec_parsed = <<>>

\* parse_sse_event not called yet
ParseInit ==
    /\ event_lines = <<>>
    /\ parsed_event = [event_type |-> None, data |-> None]

\* no node added, nothing run
BehaviorInit ==
    /\ bt_nodes = <<>>
    /\ bt_status = <<>>
    /\ bt_pc = [op |-> "new", phase |-> "", path |-> <<>>]
    /\ telemetry = <<>>
    /\ run_status = ""
    /\ shutdown_status = ""
    /\ elapsed = 0

Init == ServerInit /\ ClientInit /\ HttpInit /\ CodecInit /\ ParseInit /\ BehaviorInit

Next ==
    \/ GetStream
    \/ \E c \in ClientIds, gone \in BOOLEAN : WriterOpen(c, gone)
    \/ \E c \in ClientIds : WriterRecv(c)
    \/ \E c \in ClientIds, gone \in BOOLEAN : WriterSend(c, gone)
    \/ \E c \in ClientIds : TakeFrame(c)
    \/ \E p \in SendIds, meta \in MetaValues : SendCall(p, meta)
    \/ \E p \in SendIds : SendDeliver(p)
    \/ \E q \in CloseIds : CloseDrain(q)
    \/ \E q \in CloseIds, c \in ClientIds : CloseSend(q, c)

Spec == Init /\ [][Next]_vars

\* The tasks the executor runs keep running: a writer task takes its next step
\* (a write to the adapter channel either fails or finds room), a send or a
\* close holding the mutex finishes its channel send once there is room, and
\* a connected client keeps reading its stream.
ServerFairness ==
    /\ \A c \in ClientIds :
          /\ WF_vars(\E gone \in BOOLEAN : WriterOpen(c, gone))
          /\ WF_vars(WriterRecv(c))
          /\ WF_vars(\E gone \in BOOLEAN : WriterSend(c, gone))
          /\ WF_vars(TakeFrame(c))
    /\ \A p \in SendIds : WF_vars(SendDeliver(p))
    /\ \A q \in CloseIds : WF_vars(\E c \in ClientIds : CloseSend(q, c))

FairSpec == Spec /\ ServerFairness

(***************************************************************************)
(* The client specification.                                               *)
(***************************************************************************)
SpecClient == Init /\ [][ClientNext]_vars

(***************************************************************************)
(* The reader of the client alone, on streams with frames that decode and  *)
(* frames that do not, and close called at any moment.                     *)
(***************************************************************************)
\* a second endpoint frame with tagged data, for another URL
TaggedEndpointFrame3 == "event: endpoint\ndata: {\"Endpoint\":\"http://b:1/message/u3\"}\n\n"

\* frames the reader cannot use: an unknown event type, no event type, a
\* message whose data is no message or is missing, an endpoint whose data is
\* missing or is no SystemMessageType (the bare URL a server writes)
UnusableFrames ==
    { "event: ping\ndata: x\n\n",
      "data: {\"id\":2}\n\n",
      "event: message\ndata: not-json\n\n",
      "event: message\n\n",
      "event: endpoint\n\n",
      ServerEndpointFrame }

\* the texts one read yields: one frame, or two frames in one chunk (a
\* message after an unusable frame, an endpoint after an endpoint)
ReaderChunks ==
    UnusableFrames \cup
    { TaggedEndpointFrame,
      TaggedEndpointFrame \o TaggedEndpointFrame3,
      ServerMessageFrame,
      ServerShutdownFrame,
      "event: ping\ndata: x\n\n" \o to_sse_event(new_transport(2)) }

ReaderNext ==
    \/ \E outcome \in {"refused", "status", "ok"} : Connect(outcome)
    \/ Sleep
    \/ ReadChunkFrom(ReaderChunks)
    \/ ReadEnds
    \/ ProcessEvent
    \/ ClientClose

SpecReader == Init /\ [][ReaderNext]_vars

(***************************************************************************)
(* The HTTP service of the server: the route match and the POST handler.   *)
(***************************************************************************)
\* messages forwarded to the inbound sink during a run
MaxPosts == 2

\* the requests made: methods, paths and bodies
Methods == {"GET", "POST", "PUT"}
Paths == {"/", "/message/u1", "/message/u9", "/message/zz", "/message/", "/message", "/other"}
Bodies == {MessageJson(1), MessageJson(2), "not-json", ""}

\* Uuid::parse_str(s).ok(): the id a well-formed text denotes
ParseUuid(s) ==
    IF \E id \in 0..9 : ClientIdToString(id) = s
    THEN [ok |-> TRUE, id |-> CHOOSE id \in 0..9 : ClientIdToString(id) = s]
    ELSE [ok |-> FALSE, id |-> 0]

\* a handler that only takes the ids of registered clients
PostClientId_Registered(path) ==
    IF starts_with(path, "/message/")
           /\ ParseUuid(strip_prefix(path, "/message/")).id \in clients
    THEN ParseUuid(strip_prefix(path, "/message/"))
    ELSE [ok |-> FALSE, id |-> 0]

\* path.strip_prefix("/message/").and_then(|s| Uuid::parse_str(s).ok())
PostClientId(path) ==
    IF starts_with(path, "/message/")
    THEN ParseUuid(strip_prefix(path, "/message/"))
    ELSE [ok |-> FALSE, id |-> 0]

\* match (req.method(), req.uri().path()): the arm that handles the request
route(method, path) ==
    IF method = "GET" /\ path = "/" THEN "stream"
    ELSE IF method = "POST" THEN "message"
         ELSE "other"

\* a handler that answers 500 when it forwards nothing
PostStatus_Strict(forwarded) == IF forwarded THEN 200 ELSE 500

\* the status of the POST handler's answer once the client id is parsed
PostStatus(forwarded) == 200

\* the POST arm: 400 when the path gives no client id; otherwise the body is
\* decoded and, if it is a message, forwarded to the sink (a closed sink is
\* only logged), and the answer is 200
PostMessage(path, body) ==
    /\ Len(on_message) < MaxPosts
    /\ LET id == PostClientId(path)
           parsed == MessageFromJson(body)
           forwarded == parsed.ok /\ on_message_open
       IN IF ~id.ok
          THEN /\ response' = 400
               /\ UNCHANGED on_message
          ELSE /\ on_message' =
                     IF forwarded
                     THEN Append(on_message, [message |-> parsed.message, client_id |-> id.id])
                     ELSE on_message
               /\ response' = PostStatus(forwarded)
    /\ UNCHANGED on_message_open
    /\ UNCHANGED <<server_vars, client_vars, codec_vars, parse_vars, bt_vars>>

\* the fallback arm
NotFound ==
    /\ response' = 404
    /\ UNCHANGED <<on_message, on_message_open>>
    /\ UNCHANGED <<server_vars, client_vars, codec_vars, parse_vars, bt_vars>>

HandleRequest(method, path, body) ==
    CASE route(method, path) = "stream" -> GetStream
      [] route(method, path) = "message" -> PostMessage(path, body)
      [] OTHER -> NotFound

\* the layer above drops the receiver of the server's inbound sink
ServerSinkClose ==
    /\ on_message_open
    /\ on_message_open' = FALSE
    /\ UNCHANGED <<response, on_message>>
    /\ UNCHANGED <<server_vars, client_vars, codec_vars, parse_vars, bt_vars>>

HttpNext ==
    \/ \E method \in Methods, path \in Paths, body \in Bodies : HandleRequest(method, path, body)
    \/ ServerSinkClose

SpecHttp == Init /\ [][HttpNext]_vars

\* the HTTP service while a close call drains the registry
HttpCloseNext ==
    \/ HttpNext
    \/ CloseDrain(1)
    \/ \E c \in ClientIds : CloseSend(1, c)

SpecHttpClose == Init /\ [][HttpCloseNext]_vars

(***************************************************************************)
(* The codec: frames are serialized to one byte stream, which the buffer   *)
(* loop of connect_to_sse reads in chunks and cuts into parsed events.     *)
(***************************************************************************)
\* frames serialized to one stream
MaxFrames == 2

\* the Transport events serialized: the standard event type and custom
\* ones, among them the empty one and ones with a line break
CodecEvents ==
    { new_transport(1),
      new_transport(TextMessage),
      transport_with_event_type(2, "ping"),
      transport_with_event_type(1, ""),
      transport_with_event_type(2, "a\nb"),
      transport_with_event_type(1, "x\r") }

CodecInputs == UNION {[1..n -> CodecEvents] : n \in 1..MaxFrames}

\* the frames of the events, one after the other
RECURSIVE Wire(_)
Wire(evs) == IF evs = <<>> THEN "" ELSE to_sse_event(Head(evs)) \o Wire(Tail(evs))

\* while let Some(pos) = buffer.find("\n\n"): the events cut off the front of
\* the buffer, parsed, and the text left in the buffer
RECURSIVE take_events(_, _)
take_events(buf, acc) ==
    LET pos == find(buf, "\n\n") IN
    IF pos = -1 THEN [events |-> acc, buffer |-> buf]
    ELSE take_events(SubSeq(buf, pos + 3, Len(buf)),
                     Append(acc, parse_sse_event(SubSeq(buf, 1, pos + 2))))

\* the server side serializes a sequence of events to the stream
Encode(evs) ==
    /\ codec_events = <<>>
    /\ codec_events' = evs
    /\ codec_wire' = Wire(evs)
    /\ UNCHANGED <<codec_buffer, codec_parsed>>
    /\ UNCHANGED <<server_vars, client_vars, http_vars, parse_vars, bt_vars>>

\* a read yields a short chunk of at most MaxChunkLen bytes, or all the bytes
\* left: every position of the stream is a boundary of some chunking
MaxChunkLen == 3

ChunkLens(n) == {k \in 1..n : k <= MaxChunkLen \/ k = n}

\* stream.next() yields the next k bytes: they are converted to text, pushed
\* to the buffer, and the complete events are cut off and parsed
Feed(k) ==
    /\ k \in ChunkLens(Len(codec_wire))
    /\ codec_wire' = SubSeq(codec_wire, k + 1, Len(codec_wire))
    /\ \E r \in {take_events(codec_buffer \o from_utf8_lossy(SubSeq(codec_wire, 1, k)), <<>>)} :
          /\ codec_buffer' = r.buffer
          /\ codec_parsed' = codec_parsed \o r.events
    /\ UNCHANGED codec_events
    /\ UNCHANGED <<server_vars, client_vars, http_vars, parse_vars, bt_vars>>

CodecNext ==
    \/ \E evs \in CodecInputs : Encode(evs)
    \/ \E k \in ChunkLens(Len(codec_wire)) : Feed(k)

SpecCodec == Init /\ [][CodecNext]_vars

(***************************************************************************)
(* The parser alone: parse_sse_event called on one event text, the text    *)
(* the buffer loop cuts off up to and including the blank line.            *)
(***************************************************************************)
\* lines in one event text
MaxLines == 3

\* the lines an event text is made of: two event lines, two data lines, and
\* lines with another prefix (a field the parser does not know, and an
\* event field without the space after the colon)
EventLines == {"event: a", "event: b", "data: 1", "data: 2", "id: 7", "event:c"}

LineInputs == UNION {[1..n -> EventLines] : n \in 1..MaxLines}

\* the text of an event with these lines: each line ended, then the blank line
RECURSIVE EventText(_)
EventText(ls) == IF ls = <<>> THEN "\n" ELSE Head(ls) \o "\n" \o EventText(Tail(ls))

\* let parsed_event = Self::parse_sse_event(&event)
ParseEvent(ls) ==
    /\ event_lines = <<>>
    /\ event_lines' = ls
    /\ parsed_event' = parse_sse_event(EventText(ls))
    /\ UNCHANGED <<server_vars, client_vars, http_vars, codec_vars, bt_vars>>

ParseNext == \E ls \in LineInputs : ParseEvent(ls)

SpecParse == Init /\ [][ParseNext]_vars

(***************************************************************************)
(* The behaviour trees of bioma_behavior/tests/delay.rs: a chain of Delay  *)
(* decorators over a Mock, run once and then shut down, with the           *)
(* telemetry the tree sends while it does so.                              *)
(***************************************************************************)
\* Delay decorators in a chain
MaxDelays == 4

\* parse_duration("2s"), in seconds
duration == 2

\* BehaviorTreeId::new("bt-0")
bt_id == "bt-0"

\* BehaviorId::new("delay-0"), BehaviorId::new("delay-1"), ...
delay(i) == "delay-" \o SubSeq("0123456789", i + 1, i + 1)

\* BehaviorId::new("mock-0")
log_0 == "mock-0"

\* the root handed to BehaviorTree::new
root == delay(0)

\* a tree whose Delay decorators all decorate the Mock
Tree_Unchained(n) ==
    [id \in {delay(i) : i \in 0..(n - 1)} \cup {log_0} |->
        IF id = log_0
        THEN [kind |-> "Mock", child |-> "", message |-> "hello", mode |-> "Succeed"]
        ELSE [kind |-> "Delay", child |-> log_0, message |-> "", mode |-> ""]]

\* the add_node calls: n Delay decorators, each over the next and the last
\* over Mock::new("hello", MockMode::Succeed)
Tree(n) ==
    [id \in {delay(i) : i \in 0..(n - 1)} \cup {log_0} |->
        IF id = log_0
        THEN [kind |-> "Mock", child |-> "", message |-> "hello", mode |-> "Succeed"]
        ELSE LET i == CHOOSE j \in 0..(n - 1) : delay(j) = id IN
             [kind |-> "Delay",
              child |-> IF i = n - 1 THEN log_0 ELSE delay(i + 1),
              message |-> "", mode |-> ""]]

\* one BehaviorTelemetry of node id, with the node's status as it is sent
Telemetry(nodes, status, id, event) ==
    [tree |-> bt_id, kind |-> nodes[id].kind, node |-> id,
     status |-> status[id], event |-> event]

\* BehaviorTelemetry's Display, the text the tests compare
to_string(t) ==
    "[" \o t.tree \o "] bioma::core::" \o t.kind \o "(" \o t.node \o "): Ok("
        \o t.status \o ") - " \o t.event

\* the telemetry the tests expect: of the tree with one Delay, and of the
\* chain of two
expected_telemetry(n) ==
    IF n = 1
    THEN << "[bt-0] bioma::core::Delay(delay-0): Ok(Shutdown) - InitBegin",
            "[bt-0] bioma::core::Delay(delay-0): Ok(Initialized) - InitEnd",
            "[bt-0] bioma::core::Delay(delay-0): Ok(Initialized) - TickBegin",
            "[bt-0] bioma::core::Mock(mock-0): Ok(Shutdown) - InitBegin",
            "[bt-0] bioma::core::Mock(mock-0): Ok(Initialized) - InitEnd",
            "[bt-0] bioma::core::Mock(mock-0): Ok(Initialized) - TickBegin",
            "[bt-0] bioma::core::Mock(mock-0): Ok(Running) - hello (ticks: 1)",
            "[bt-0] bioma::core::Mock(mock-0): Ok(Success) - TickEnd",
            "[bt-0] bioma::core::Delay(delay-0): Ok(Success) - TickEnd",
            "[bt-0] bioma::core::Delay(delay-0): Ok(Success) - ShutdownBegin",
            "[bt-0] bioma::core::Mock(mock-0): Ok(Success) - ShutdownBegin",
            "[bt-0] bioma::core::Mock(mock-0): Ok(Shutdown) - ShutdownEnd",
            "[bt-0] bioma::core::Delay(delay-0): Ok(Shutdown) - ShutdownEnd" >>
    ELSE << "[bt-0] bioma::core::Delay(delay-0): Ok(Shutdown) - InitBegin",
            "[bt-0] bioma::core::Delay(delay-0): Ok(Initialized) - InitEnd",
            "[bt-0] bioma::core::Delay(delay-0): Ok(Initialized) - TickBegin",
            "[bt-0] bioma::core::Delay(delay-1): Ok(Shutdown) - InitBegin",
            "[bt-0] bioma::core::Delay(delay-1): Ok(Initialized) - InitEnd",
            "[bt-0] bioma::core::Delay(delay-1): Ok(Initialized) - TickBegin",
            "[bt-0] bioma::core::Mock(mock-0): Ok(Shutdown) - InitBegin",
            "[bt-0] bioma::core::Mock(mock-0): Ok(Initialized) - InitEnd",
            "[bt-0] bioma::core::Mock(mock-0): Ok(Initialized) - TickBegin",
            "[bt-0] bioma::core::Mock(mock-0): Ok(Running) - hello (ticks: 1)",
            "[bt-0] bioma::core::Mock(mock-0): Ok(Success) - TickEnd",
            "[bt-0] bioma::core::Delay(delay-1): Ok(Success) - TickEnd",
            "[bt-0] bioma::core::Delay(delay-0): Ok(Success) - TickEnd",
            "[bt-0] bioma::core::Delay(delay-0): Ok(Success) - ShutdownBegin",
            "[bt-0] bioma::core::Delay(delay-1): Ok(Success) - ShutdownBegin",
            "[bt-0] bioma::core::Mock(mock-0): Ok(Success) - ShutdownBegin",
            "[bt-0] bioma::core::Mock(mock-0): Ok(Shutdown) - ShutdownEnd",
            "[bt-0] bioma::core::Delay(delay-1): Ok(Shutdown) - ShutdownEnd",
            "[bt-0] bioma::core::Delay(delay-0): Ok(Shutdown) - ShutdownEnd" >>

\* the node the call in progress is at
Current == bt_pc.path[Len(bt_pc.path)]

\* the path without its last node: back at the parent
Parent == SubSeq(bt_pc.path, 1, Len(bt_pc.path) - 1)

At(op, phase) == bt_pc.op = op /\ bt_pc.phase = phase

Idle == [op |-> "idle", phase |-> "", path |-> <<>>]

\* bt.add_node(...) for every node of the chain; a node starts in Shutdown
AddNodes(n) ==
    /\ bt_pc.op = "new"
    /\ bt_nodes' = Tree(n)
    /\ bt_status' = [id \in DOMAIN Tree(n) |-> "Shutdown"]
    /\ bt_pc' = Idle
    /\ UNCHANGED <<telemetry, run_status, shutdown_status, elapsed>>
    /\ UNCHANGED <<server_vars, client_vars, http_vars, codec_vars, parse_vars>>

\* bt.run() is called: the root is entered
RunTree ==
    /\ bt_pc.op = "idle"
    /\ run_status = ""
    /\ bt_pc' = [op |-> "run", phase |-> "InitBegin", path |-> <<root>>]
    /\ UNCHANGED <<bt_nodes, bt_status, telemetry, run_status, shutdown_status, elapsed>>
    /\ UNCHANGED <<server_vars, client_vars, http_vars, codec_vars, parse_vars>>

\* a node entered for the first time announces its init
InitBegin ==
    /\ At("run", "InitBegin")
    /\ telemetry' = Append(telemetry, Telemetry(bt_nodes, bt_status, Current, "InitBegin"))
    /\ bt_pc' = [bt_pc EXCEPT !.phase = "InitEnd"]
    /\ UNCHANGED <<bt_nodes, bt_status, run_status, shutdown_status, elapsed>>
    /\ UNCHANGED <<server_vars, client_vars, http_vars, codec_vars, parse_vars>>

\* the node is Initialized
InitEnd ==
    /\ At("run", "InitEnd")
    /\ bt_status' = [bt_status EXCEPT ![Current] = "Initialized"]
    /\ telemetry' = Append(telemetry, Telemetry(bt_nodes, bt_status', Current, "InitEnd"))
    /\ bt_pc' = [bt_pc EXCEPT !.phase = "TickBegin"]
    /\ UNCHANGED <<bt_nodes, run_status, shutdown_status, elapsed>>
    /\ UNCHANGED <<server_vars, client_vars, http_vars, codec_vars, parse_vars>>

\* the node's tick begins
TickBegin ==
    /\ At("run", "TickBegin")
    /\ telemetry' = Append(telemetry, Telemetry(bt_nodes, bt_status, Current, "TickBegin"))
    /\ bt_pc' = [bt_pc EXCEPT !.phase = "Tick"]
    /\ UNCHANGED <<bt_nodes, bt_status, run_status, shutdown_status, elapsed>>
    /\ UNCHANGED <<server_vars, client_vars, http_vars, codec_vars, parse_vars>>

\* the tick of a Delay: it sleeps for its duration and enters its child
DelayTick ==
    /\ At("run", "Tick")
    /\ bt_nodes[Current].kind = "Delay"
    /\ elapsed' = elapsed + duration
    /\ bt_pc' = [bt_pc EXCEPT !.phase = "InitBegin",
                              !.path = Append(@, bt_nodes[Current].child)]
    /\ UNCHANGED <<bt_nodes, bt_status, telemetry, run_status, shutdown_status>>
    /\ UNCHANGED <<server_vars, client_vars, http_vars, codec_vars, parse_vars>>

\* the tick of a Mock: it is Running and sends its message with the number
\* of the tick
MockTick ==
    /\ At("run", "Tick")
    /\ bt_nodes[Current].kind = "Mock"
    /\ bt_status' = [bt_status EXCEPT ![Current] = "Running"]
    /\ telemetry' = Append(telemetry,
           Telemetry(bt_nodes, bt_status', Current,
                     bt_nodes[Current].message \o " (ticks: 1)"))
    /\ bt_pc' = [bt_pc EXCEPT !.phase = "TickEnd"]
    /\ UNCHANGED <<bt_nodes, run_status, shutdown_status, elapsed>>
    /\ UNCHANGED <<server_vars, client_vars, http_vars, codec_vars, parse_vars>>

\* the status a tick ends with: a Mock in MockMode::Succeed succeeds, a
\* Delay takes the status of its child
TickStatus(id) ==
    IF bt_nodes[id].kind = "Mock" THEN "Success" ELSE bt_status[bt_nodes[id].child]

\* the node's tick ends; the tick of the root ends the run
TickEnd ==
    /\ At("run", "TickEnd")
    /\ bt_status' = [bt_status EXCEPT ![Current] = TickStatus(Current)]
    /\ telemetry' = Append(telemetry, Telemetry(bt_nodes, bt_status', Current, "TickEnd"))
    /\ IF Len(bt_pc.path) = 1
       THEN /\ run_status' = bt_status'[Current]
            /\ bt_pc' = Idle
       ELSE /\ run_status' = run_status
            /\ bt_pc' = [bt_pc EXCEPT !.path = Parent]
    /\ UNCHANGED <<bt_nodes, shutdown_status, elapsed>>
    /\ UNCHANGED <<server_vars, client_vars, http_vars, codec_vars, parse_vars>>

\* bt.shutdown() is called after the run
ShutdownTree ==
    /\ bt_pc.op = "idle"
    /\ run_status # ""
    /\ shutdown_status = ""
    /\ bt_pc' = [op |-> "shutdown", phase |-> "ShutdownBegin", path |-> <<root>>]
    /\ UNCHANGED <<bt_nodes, bt_status, telemetry, run_status, shutdown_status, elapsed>>
    /\ UNCHANGED <<server_vars, client_vars, http_vars, codec_vars, parse_vars>>

\* a node announces its shutdown and then shuts its child down
ShutdownBegin ==
    /\ At("shutdown", "ShutdownBegin")
    /\ telemetry' = Append(telemetry, Telemetry(bt_nodes, bt_status, Current, "ShutdownBegin"))
    /\ bt_pc' = IF bt_nodes[Current].kind = "Delay"
                THEN [bt_pc EXCEPT !.path = Append(@, bt_nodes[Current].child)]
                ELSE [bt_pc EXCEPT !.phase = "ShutdownEnd"]
    /\ UNCHANGED <<bt_nodes, bt_status, run_status, shutdown_status, elapsed>>
    /\ UNCHANGED <<server_vars, client_vars, http_vars, codec_vars, parse_vars>>

\* the node is Shutdown; the shutdown of the root ends the call
ShutdownEnd ==
    /\ At("shutdown", "ShutdownEnd")
    /\ bt_status' = [bt_status EXCEPT ![Current] = "Shutdown"]
    /\ telemetry' = Append(telemetry, Telemetry(bt_nodes, bt_status', Current, "ShutdownEnd"))
    /\ IF Len(bt_pc.path) = 1
       THEN /\ shutdown_status' = bt_status'[Current]
            /\ bt_pc' = Idle
       ELSE /\ shutdown_status' = shutdown_status
            /\ bt_pc' = [bt_pc EXCEPT !.path = Parent]
    /\ UNCHANGED <<bt_nodes, run_status, elapsed>>
    /\ UNCHANGED <<server_vars, client_vars, http_vars, codec_vars, parse_vars>>

BehaviorNext ==
    \/ \E n \in 1..MaxDelays : AddNodes(n)
    \/ RunTree
    \/ InitBegin
    \/ InitEnd
    \/ TickBegin
    \/ DelayTick
    \/ MockTick
    \/ TickEnd
    \/ ShutdownTree
    \/ ShutdownBegin
    \/ ShutdownEnd

SpecBehavior == Init /\ [][BehaviorNext]_vars

(***************************************************************************)
(* Reading a stream back: what a client sees in the frames written.        *)
(***************************************************************************)
\* the frames the writer tasks of this model can write, parsed once
WrittenFrames ==
    {to_sse_event(InitialEvent(c)) : c \in ClientIds}
        \cup {to_sse_event(new_transport(m)) : m \in Messages}
        \cup {to_sse_event(ShutdownEvent(ShutdownReason))}

ParsedWrittenFrames == [frame \in WrittenFrames |-> parse_sse_event(frame)]

ReadFrame(frame) ==
    IF frame \in WrittenFrames THEN ParsedWrittenFrames[frame] ELSE parse_sse_event(frame)

FrameType(frame) == ReadFrame(frame).event_type
FrameData(frame) == ReadFrame(frame).data

IsTransportFrame(frame) == FrameType(frame) = Some("message")
IsShutdownFrame(frame) == FrameType(frame) = Some("shutdown")
IsEndpointFrame(frame) == FrameType(frame) = Some("endpoint")

\* the message a Transport frame carries
FrameMessage(frame) == MessageFromJson(FrameData(frame).val).message

RECURSIVE SelectFrames(_, _)
SelectFrames(frames, kind) ==
    IF frames = <<>> THEN <<>>
    ELSE (IF FrameType(Head(frames)) = Some(kind) THEN <<Head(frames)>> ELSE <<>>)
             \o SelectFrames(Tail(frames), kind)

\* the messages of the Transport frames of c's stream, in stream order
StreamMessages(c) ==
    LET fs == SelectFrames(stream[c], "message")
    IN  [i \in 1..Len(fs) |-> FrameMessage(fs[i])]

IsPrefix(a, b) == Len(a) <= Len(b) /\ SubSeq(b, 1, Len(a)) = a

(***************************************************************************)
(* C1: the first frame a writer task writes to its stream is the endpoint  *)
(* frame whose data is http://<bind_endpoint>/message/<client_id> for the  *)
(* id of that connection; no Transport or shutdown frame comes before it.  *)
(***************************************************************************)
C1_EndpointFirst ==
    \A c \in ClientIds :
        stream[c] # <<>> =>
            /\ c <= next_id
            /\ FrameType(stream[c][1]) = Some("endpoint")
            /\ FrameData(stream[c][1]) =
                   Some("http://" \o endpoint \o "/message/" \o ClientIdToString(c))
            /\ stream[c][1] =
                   "event: endpoint\ndata: http://" \o endpoint \o "/message/"
                       \o ClientIdToString(c) \o "\n\n"
            /\ \A i \in 1..Len(stream[c]) :
                   (IsTransportFrame(stream[c][i]) \/ IsShutdownFrame(stream[c][i])) => i > 1

\* a stream that carries a Transport frame and a shutdown frame after its
\* first frame
C1_Witness ==
    \E c \in ClientIds :
        /\ Len(stream[c]) = 3
        /\ IsTransportFrame(stream[c][2])
        /\ IsShutdownFrame(stream[c][3])

C3_Isolation ==
    /\ \A c, d \in ClientIds :
          (c # d /\ stream[c] # <<>> /\ stream[d] # <<>>) => stream[c][1] # stream[d][1]
    /\ \A c \in ClientIds : \A i \in 1..Len(stream[c]) :
          IsTransportFrame(stream[c][i]) =>
              LET p == FrameMessage(stream[c][i]) IN
              /\ p \in SendIds
              /\ send_calls[p].meta = [kind |-> "ok", client_id |-> c]

\* two clients, each with a Transport frame of its own on its stream
C3_Witness ==
    \E c, d \in ClientIds :
        /\ c # d
        /\ \E i \in 1..Len(stream[c]) : IsTransportFrame(stream[c][i])
        /\ \E j \in 1..Len(stream[d]) : IsTransportFrame(stream[d][j])

(***************************************************************************)
(* C4: after close, every client that was registered when the close took   *)
(* the registry gets exactly one shutdown frame on its stream, unless its  *)
(* writer task has exited on a failed write; no stream ever carries two    *)
(* shutdown frames, however many close calls run.                          *)
(***************************************************************************)
\* c was registered and a close has drained it from the registry
WasDrained(c) == writer[c] # "Unborn" /\ c \notin clients

ShutdownFrames(c) == SelectFrames(stream[c], "shutdown")

C4_ShutdownFanOut ==
    /\ [](\A c \in ClientIds :
            /\ Len(ShutdownFrames(c)) <= 1
            /\ \A i \in 1..Len(ShutdownFrames(c)) :
                  FrameData(ShutdownFrames(c)[i]) = Some("Server is shutting down"))
    /\ \A c \in ClientIds :
          WasDrained(c) ~> (Len(ShutdownFrames(c)) = 1 \/ writer[c] = "ClosedAdapter")

\* two clients, two close calls returned, a shutdown frame on both streams
C4_Witness ==
    /\ \E c, d \in ClientIds :
          c # d /\ Len(ShutdownFrames(c)) = 1 /\ Len(ShutdownFrames(d)) = 1
    /\ Cardinality({q \in CloseIds : close_calls[q].pc = "done"}) >= 2

(***************************************************************************)
(* C5: after close, a client's writer task flushes every event still       *)
(* queued for it, the shutdown frame last, and then exits: a shutdown      *)
(* frame is the last frame of its stream, a writer that exits on the       *)
(* closed channel has written every queued message and the shutdown frame, *)
(* and the writer of a drained client eventually reaches Closed.           *)
(***************************************************************************)
QueuedMessages(c) ==
    LET qs == SelectSeq(completed[c], LAMBDA e : e.queued)
    IN  [i \in 1..Len(qs) |-> qs[i].message]

C5_FlushThenExit ==
    /\ [](\A c \in ClientIds :
            /\ \A i \in 1..Len(stream[c]) :
                  IsShutdownFrame(stream[c][i]) => i = Len(stream[c])
            /\ writer[c] = "ClosedDrained" =>
                  /\ client_rx[c] = <<>>
                  /\ held[c] = NoEvent
                  /\ stream[c] # <<>>
                  /\ IsShutdownFrame(stream[c][Len(stream[c])])
                  /\ StreamMessages(c) = QueuedMessages(c))
    /\ \A c \in ClientIds : WasDrained(c) ~> Closed(c)

\* a writer that has exited after endpoint, message and shutdown frames
C5_Witness ==
    \E c \in ClientIds :
        /\ writer[c] = "ClosedDrained"
        /\ Len(stream[c]) = 3
        /\ Len(StreamMessages(c)) = 1

(***************************************************************************)
(* C6: a send waiting on the full channel of client A does not block a     *)
(* send to another registered client B whose channel has room: the         *)
(* registry mutex is free for it.                                          *)
(***************************************************************************)
\* a send naming b would get the mutex, find b and enqueue at once
SendCouldComplete(b) ==
    /\ registry_lock = NoHolder
    /\ b \in clients
    /\ tx_send(client_rx[b], NoEvent, Closed(b)).ready

C6_SlowClientBlocksOnlyItself ==
    \A p \in SendIds :
        LET a == TargetOf(send_calls[p].meta) IN
        (/\ send_calls[p].pc = "send"
         /\ ~tx_send(client_rx[a], new_transport(p), Closed(a)).ready)
            => \A b \in clients \ {a} :
                   (~Closed(b) /\ Len(client_rx[b]) < channel_capacity) => SendCouldComplete(b)

(***************************************************************************)
(* C7: a send whose target's writer task has exited (the channel receiver  *)
(* is dropped, so tx.send fails) reports a peer-gone error, not ok.        *)
(***************************************************************************)
C7_PeerGoneReported ==
    \A p \in SendIds :
        (send_calls[p].pc = "done" /\ send_calls[p].tx_failed) => send_calls[p].result # "Ok"

(***************************************************************************)
(* C8: once a writer task has exited because the client disconnected (its  *)
(* write to the adapter channel failed), the registry no longer holds      *)
(* that client's id.                                                       *)
(***************************************************************************)
C8_EntryGoneAfterWriterExit ==
    \A c \in ClientIds : writer[c] = "ClosedAdapter" => c \notin clients

(***************************************************************************)
(* C9: when the client reader processes the endpoint frame exactly as the  *)
(* server serializes it, message_endpoint becomes the URL in that frame    *)
(* (so that later sends POST to it).                                       *)
(***************************************************************************)
\* this step cuts `frame` off the front of the buffer and routes it
Processes(frame) == task.pc = "reading" /\ buffer = frame \o buffer'

C9_ServerEndpointAdvertised ==
    [][Processes(ServerEndpointFrame) => message_endpoint' = Some(endpoint_url(1))]_vars

(***************************************************************************)
(* C10: a client send made while message_endpoint is unset fails with      *)
(* EndpointNotAdvertised and issues no POST; it neither sets               *)
(* message_endpoint nor touches the reader task.                           *)
(***************************************************************************)
reader_vars == <<task, attempts, last_error, sleeps, buffer, chunks_read, inbound, sink_open>>

C10_SendBeforeEndpoint ==
    [][(send_results' # send_results /\ ~message_endpoint.some) =>
          /\ send_results' = Append(send_results, "EndpointNotAdvertised")
          /\ posts' = posts
          /\ message_endpoint' = message_endpoint
          /\ reader_vars' = reader_vars]_vars

\* a send has failed so, with no POST, while the reader is on an open stream
C10_Witness ==
    /\ send_results = <<"EndpointNotAdvertised">>
    /\ posts = <<>>
    /\ task.pc = "reading"
    /\ ~message_endpoint.some

(***************************************************************************)
(* C11: a server send whose target id is not in the registry fails with    *)
(* UnknownClient at once, and enqueues no event on any client's channel:   *)
(* its message is never queued, held by a writer or written to a stream.   *)
(***************************************************************************)
\* message p is somewhere on its way to a client
InFlight(p) ==
    \E c \in ClientIds :
        \/ \E i \in 1..Len(client_rx[c]) : client_rx[c][i] = new_transport(p)
        \/ held[c] = new_transport(p)
        \/ \E i \in 1..Len(stream[c]) : stream[c][i] = to_sse_event(new_transport(p))

\* this step is the call of send p
SendStarts(p) == send_calls[p].pc = "idle" /\ send_calls'[p].pc # "idle"

C11_UnknownClient ==
    /\ [](\A p \in SendIds : send_calls[p].result = "UnknownClient" => ~InFlight(p))
    /\ [][\A p \in SendIds :
            (/\ SendStarts(p)
             /\ send_calls'[p].meta.kind = "ok"
             /\ send_calls'[p].meta.client_id \notin clients)
                => /\ send_calls'[p].pc = "done"
                   /\ send_calls'[p].result = "UnknownClient"
                   /\ client_rx' = client_rx
                   /\ clients' = clients
                   /\ completed' = completed]_vars

\* a send to an id that a close has drained fails so, while another client
\* is registered
C11_Witness ==
    \E p \in SendIds :
        /\ send_calls[p].result = "UnknownClient"
        /\ send_calls[p].meta.client_id <= next_id
        /\ clients # {}

(***************************************************************************)
(* C12: a server send whose metadata has no client_id, or a malformed one, *)
(* fails with InvalidMetadata and leaves the registry, its mutex and every *)
(* client channel unchanged.                                               *)
(***************************************************************************)
C12_InvalidMetadata ==
    /\ [](\A p \in SendIds : send_calls[p].result = "InvalidMetadata" => ~InFlight(p))
    /\ [][\A p \in SendIds :
            (SendStarts(p) /\ send_calls'[p].meta.kind \in {"absent", "malformed"})
                => /\ send_calls'[p].pc = "done"
                   /\ send_calls'[p].result = "InvalidMetadata"
                   /\ client_rx' = client_rx
                   /\ clients' = clients
                   /\ registry_lock' = registry_lock
                   /\ completed' = completed]_vars

\* both kinds of bad metadata have failed so, with a client registered and an
\* event queued for it
C12_Witness ==
    /\ \E p \in SendIds :
          send_calls[p].result = "InvalidMetadata" /\ send_calls[p].meta.kind = "absent"
    /\ \E p \in SendIds :
          send_calls[p].result = "InvalidMetadata" /\ send_calls[p].meta.kind = "malformed"
    /\ \E c \in clients : client_rx[c] # <<>>

(***************************************************************************)
(* C13: the client makes at most retry_count connection attempts; when     *)
(* none ends with a shutdown, it makes exactly retry_count and its task    *)
(* then ends with the error of the most recent attempt.                    *)
(***************************************************************************)
ConnectErrors == {"ConnectionError", "HttpStatus"}
StreamErrors == {"IO", "ClosedUnexpectedly", "ChannelClosed"}

C13_RetryBound ==
    /\ [](attempts <= retry_count)
    /\ []((task.pc = "done" /\ task.result # "Ok") =>
            /\ attempts = retry_count
            /\ last_error \in ConnectErrors \cup StreamErrors
            /\ task.result = last_error)
    \* last_error is the error of the attempt that has just failed
    /\ [][(task.pc = "idle" /\ task'.pc = "sleeping") => last_error' \in ConnectErrors]_vars
    /\ [][(task.pc = "reading" /\ task'.pc = "sleeping") => last_error' \in StreamErrors]_vars
    /\ [][last_error' # last_error => task'.pc = "sleeping"]_vars
    \* with no attempt left the task ends
    /\ [][(task.pc = "idle" /\ attempts = retry_count /\ task' # task) =>
              task' = [pc |-> "done", result |-> last_error]]_vars

\* the task has ended with the HTTP status error of its last attempt, after an
\* earlier attempt that had opened the stream and forwarded a message
C13_Witness ==
    /\ task = [pc |-> "done", result |-> "HttpStatus"]
    /\ attempts = retry_count
    /\ sleeps = retry_count
    /\ inbound # <<>>

(***************************************************************************)
(* C14: when the reader processes a shutdown frame, the task ends with ok  *)
(* and makes no further attempt, whatever attempts remain; nothing that    *)
(* follows the shutdown frame is forwarded to the inbound sink.            *)
(***************************************************************************)
C14_ShutdownEndsTask ==
    /\ [][Processes(ServerShutdownFrame) =>
              /\ task' = [pc |-> "done", result |-> "Ok"]
              /\ attempts' = attempts
              /\ inbound' = inbound]_vars
    /\ [][task.pc = "done" =>
              /\ task' = task
              /\ attempts' = attempts
              /\ inbound' = inbound
              /\ buffer' = buffer
              /\ message_endpoint' = message_endpoint]_vars
    /\ [](task.result = "Ok" => task.pc = "done")

\* the task has ended with ok on its first attempt, leaving the message frame
\* that followed the shutdown frame in the buffer
C14_Witness ==
    /\ task = [pc |-> "done", result |-> "Ok"]
    /\ attempts = 1
    /\ attempts < retry_count
    /\ buffer = ServerMessageFrame
    /\ inbound = <<>>

(***************************************************************************)
(* C15: an attempt ends with an error on a non-2xx status, on the end of   *)
(* the stream without a shutdown frame, on an I/O error reading a chunk,   *)
(* and on a closed inbound sink when a message is forwarded; after the     *)
(* error the loop sleeps and makes another attempt if and only if fewer    *)
(* than retry_count attempts have been made.                               *)
(***************************************************************************)
C15_ErrorsRetry ==
    /\ [][(may_attempt(attempts) /\ Connect("status")) =>
              (task'.pc = "sleeping" /\ last_error' = "HttpStatus")]_vars
    /\ [][ReadEnds =>
              (task'.pc = "sleeping" /\ last_error' \in {"IO", "ClosedUnexpectedly"})]_vars
    /\ [][(Processes(ServerMessageFrame) /\ ~sink_open) =>
              (task'.pc = "sleeping" /\ last_error' = "ChannelClosed" /\ inbound' = inbound)]_vars
    /\ [][(task.pc = "sleeping" /\ task' # task) => task'.pc = "idle"]_vars
    /\ [][(task.pc = "idle" /\ task' # task) =>
              IF attempts < retry_count
              THEN attempts' = attempts + 1 /\ task'.pc \in {"reading", "sleeping"}
              ELSE attempts' = attempts /\ task'.pc = "done"]_vars

\* after a first attempt that failed on the closed sink, a second one is
\* reading its stream
C15_Witness ==
    /\ attempts = 2
    /\ task.pc = "reading"
    /\ last_error = "ChannelClosed"

(***************************************************************************)
(* C16: a POST to /message/{id} with a well-formed UUID is always answered *)
(* 200; {message, client_id = id} is put on the inbound sink exactly when  *)
(* the body is the JSON of a message and the sink is open; a malformed     *)
(* body or a closed sink puts nothing on it.                               *)
(***************************************************************************)
WellFormedPaths == {path \in Paths : PostClientId(path).ok}

C16_PostAlways200 ==
    [][\A path \in WellFormedPaths, body \in Bodies :
          HandleRequest("POST", path, body) =>
              /\ response' = 200
              /\ on_message' =
                    IF body \in {MessageJson(m) : m \in Messages} /\ on_message_open
                    THEN Append(on_message,
                                [message |-> CHOOSE m \in Messages : MessageJson(m) = body,
                                 client_id |-> PostClientId(path).id])
                    ELSE on_message]_vars

\* a message was forwarded, then the sink was closed, and a POST was still
\* answered 200
C16_Witness ==
    /\ response = 200
    /\ ~on_message_open
    /\ Len(on_message) = 1
    /\ next_id = 0

(***************************************************************************)
(* C17: GET / is answered 200 by the stream handler; a POST to             *)
(* /message/{id} whose {id} is no well-formed UUID is answered 400; every  *)
(* other request, a POST to a path that does not start with /message/      *)
(* included, is answered 404.                                              *)
(***************************************************************************)
RoutingTable(method, path) ==
    IF method = "GET" /\ path = "/" THEN 200
    ELSE IF method = "POST" /\ starts_with(path, "/message/")
         THEN IF PostClientId(path).ok THEN 200 ELSE 400
         ELSE 404

C17_RoutingTable ==
    [][\A method \in Methods, path \in Paths, body \in Bodies :
          HandleRequest(method, path, body) => response' = RoutingTable(method, path)]_vars

(***************************************************************************)
(* C18: close never fails on per-client delivery: it returns ok even when  *)
(* writer tasks of registered clients have already exited, every other     *)
(* client it drained gets the shutdown event, and it leaves the registry   *)
(* empty.                                                                  *)
(***************************************************************************)
\* the shutdown event is queued for c, held by its writer or on its stream
ShutdownSent(c) ==
    \/ \E i \in 1..Len(client_rx[c]) : client_rx[c][i] = ShutdownEvent(ShutdownReason)
    \/ held[c] = ShutdownEvent(ShutdownReason)
    \/ \E i \in 1..Len(stream[c]) :
            stream[c][i] = to_sse_event(ShutdownEvent(ShutdownReason))

\* this step is the return of close q
CloseReturns(q) == close_calls[q].pc # "done" /\ close_calls'[q].pc = "done"

C18_CloseBestEffort ==
    /\ [](\A q \in CloseIds : close_calls[q].pc = "done" => close_calls[q].result = "Ok")
    /\ [](\A c \in ClientIds :
            (WasDrained(c) /\ \A q \in CloseIds : c \notin close_calls[q].pending)
                => (ShutdownSent(c) \/ writer[c] = "ClosedAdapter"))
    /\ [][\A q \in CloseIds : CloseReturns(q) => (clients' = {} /\ registry_lock' = NoHolder)]_vars

\* a close has returned ok after draining a client whose writer had exited
\* and another client, which has its shutdown frame
C18_Witness ==
    /\ \E q \in CloseIds : close_calls[q].pc = "done" /\ close_calls[q].result = "Ok"
    /\ \E c, d \in ClientIds :
          /\ WasDrained(c) /\ WasDrained(d)
          /\ writer[c] = "ClosedAdapter" /\ stream[c] = <<>>
          /\ Len(ShutdownFrames(d)) = 1

(***************************************************************************)
(* Round trips of the codec.                                               *)
(***************************************************************************)
\* parsing the frame of ev gives back its event type, and data that decodes
\* to its message
RoundTrip(ev) ==
    LET parsed == parse_sse_event(to_sse_event(ev)) IN
    /\ parsed.event_type = Some(ev.event_type)
    /\ parsed.data = Some(MessageJson(ev.message))
    /\ parse_json_rpc(parsed) = [ok |-> TRUE, message |-> ev.message]

RoundTrips == [ev \in CodecEvents |-> RoundTrip(ev)]

\* an event type without a line feed and without a carriage return at its end
OneLine(t) == find(t, "\n") = -1 /\ ~ends_with(t, "\r")

(***************************************************************************)
(* C19, as stated: for every message m and every event type t, parsing     *)
(* the frame of Transport{m, t} yields event type t and data that decodes  *)
(* to m.                                                                   *)
(***************************************************************************)
C19_RoundTripAnyType ==
    \A i \in 1..Len(codec_events) : RoundTrips[codec_events[i]]

(***************************************************************************)
(* C19, amended: for every message m and every event type t that holds no  *)
(* line feed and does not end with a carriage return, parsing the frame of *)
(* Transport{m, t} yields event type t and data that decodes to m.         *)
(***************************************************************************)
C19_RoundTripOneLineType ==
    \A i \in 1..Len(codec_events) :
        OneLine(codec_events[i].event_type) => RoundTrips[codec_events[i]]

\* a frame with a custom event type and the frame of the text message have
\* been read from the stream and parsed back
C19_Witness ==
    /\ codec_events = <<transport_with_event_type(2, "ping"), new_transport(TextMessage)>>
    /\ codec_wire = ""
    /\ codec_parsed = <<[event_type |-> Some("ping"), data |-> Some(MessageJson(2))],
                        [event_type |-> Some("message"),
                         data |-> Some(MessageJson(TextMessage))]>>

(***************************************************************************)
(* C20: whatever the chunks in which the bytes of a sequence of frames are *)
(* read, the events parsed are those parsed when the bytes arrive in one   *)
(* chunk.                                                                  *)
(***************************************************************************)
\* what the buffer loop yields when the whole stream arrives in one chunk
OneChunk == [evs \in CodecInputs |-> take_events(from_utf8_lossy(Wire(evs)), <<>>)]

C20_ChunkingInvariant ==
    (codec_events # <<>> /\ codec_wire = "") =>
        /\ codec_parsed = OneChunk[codec_events].events
        /\ codec_buffer = OneChunk[codec_events].buffer

(***************************************************************************)
(* C21: parsing an event text with several "event: " lines or several      *)
(* "data: " lines keeps the last occurrence of each, None for a field      *)
(* with no line; lines with any other prefix are skipped: the result is    *)
(* the result for the text without them.                                   *)
(***************************************************************************)
\* the value of the last line of ls that begins with prefix, None without one
LastWith(ls, prefix) ==
    LET S == {i \in 1..Len(ls) : /\ Len(ls[i]) >= Len(prefix)
                                  /\ SubSeq(ls[i], 1, Len(prefix)) = prefix} IN
    IF S = {} THEN None
    ELSE LET last == CHOOSE i \in S : \A j \in S : j <= i IN
         Some(SubSeq(ls[last], Len(prefix) + 1, Len(ls[last])))

Recognized(ls) ==
    SelectSeq(ls, LAMBDA l : l \in {"event: a", "event: b", "data: 1", "data: 2"})

C21_LastOccurrenceWins ==
    /\ parsed_event.event_type = LastWith(event_lines, "event: ")
    /\ parsed_event.data = LastWith(event_lines, "data: ")
    /\ parsed_event = parse_sse_event(EventText(Recognized(event_lines)))

C21_Witness ==
    /\ event_lines = <<"event: a", "id: 7", "event: b">>
    /\ parsed_event = [event_type |-> Some("b"), data |-> None]

(***************************************************************************)
(* C22: running a chain of Delay decorators over a Mock that succeeds      *)
(* returns Success and the shutdown that follows returns Shutdown; the     *)
(* telemetry is nested: a node's InitBegin, InitEnd and TickBegin come     *)
(* before its child's InitBegin, a child's TickEnd before its parent's,    *)
(* ShutdownBegin parent first and ShutdownEnd child first, each once.      *)
(* Stated with "no other telemetry event" the property fails: the Mock     *)
(* sends its message, Running, right after its TickBegin, as the tests     *)
(* expect.  It holds with that one message allowed.                        *)
(***************************************************************************)
Lifecycle == {"InitBegin", "InitEnd", "TickBegin", "TickEnd", "ShutdownBegin", "ShutdownEnd"}

\* where node id sent this event
Sent(id, event) ==
    {i \in 1..Len(telemetry) : telemetry[i].node = id /\ telemetry[i].event = event}

\* if the second event was sent, the first was sent before it
Precedes(id1, event1, id2, event2) ==
    \A j \in Sent(id2, event2) : \E i \in Sent(id1, event1) : i < j

NestedTelemetry ==
    /\ \A id \in DOMAIN bt_nodes :
          /\ \A event \in Lifecycle : Cardinality(Sent(id, event)) <= 1
          /\ Precedes(id, "InitBegin", id, "InitEnd")
          /\ Precedes(id, "InitEnd", id, "TickBegin")
          /\ Precedes(id, "TickBegin", id, "TickEnd")
          /\ Precedes(id, "TickEnd", id, "ShutdownBegin")
          /\ Precedes(id, "ShutdownBegin", id, "ShutdownEnd")
          /\ bt_nodes[id].kind = "Delay" =>
                LET child == bt_nodes[id].child IN
                /\ Precedes(id, "TickBegin", child, "InitBegin")
                /\ Precedes(child, "TickEnd", id, "TickEnd")
                /\ Precedes(id, "ShutdownBegin", child, "ShutdownBegin")
                /\ Precedes(child, "ShutdownEnd", id, "ShutdownEnd")
    /\ run_status # "" =>
          /\ run_status = "Success"
          /\ \A id \in DOMAIN bt_nodes : Sent(id, "TickEnd") # {}
    /\ shutdown_status # "" =>
          /\ shutdown_status = "Shutdown"
          /\ \A id \in DOMAIN bt_nodes : Sent(id, "ShutdownEnd") # {}
          /\ Cardinality(DOMAIN bt_nodes) \in {2, 3} =>
                [i \in 1..Len(telemetry) |-> to_string(telemetry[i])]
                    = expected_telemetry(Cardinality(DOMAIN bt_nodes) - 1)

\* the one telemetry that is no lifecycle event: the message of the Mock,
\* sent while Running, right after the Mock's TickBegin
IsMockMessage(i) ==
    /\ telemetry[i].kind = "Mock"
    /\ telemetry[i].event = "hello (ticks: 1)"
    /\ telemetry[i].status = "Running"
    /\ i > 1
    /\ telemetry[i - 1].node = telemetry[i].node
    /\ telemetry[i - 1].event = "TickBegin"

C22_NestedTelemetryOnly ==
    /\ NestedTelemetry
    /\ \A i \in 1..Len(telemetry) : telemetry[i].event \in Lifecycle

C22_NestedTelemetryAndMockMessage ==
    /\ NestedTelemetry
    /\ \A i \in 1..Len(telemetry) : telemetry[i].event \in Lifecycle \/ IsMockMessage(i)
    /\ Cardinality({i \in 1..Len(telemetry) : telemetry[i].event \notin Lifecycle}) <= 1

C22_Witness ==
    /\ Cardinality(DOMAIN bt_nodes) = 3
    /\ run_status = "Success"
    /\ shutdown_status = "Shutdown"
    /\ Len(telemetry) = 19

(***************************************************************************)
(* C23: when the reader processes a frame with an unknown or missing       *)
(* event type, or a message or endpoint frame whose data is missing or     *)
(* does not decode, nothing changes but the buffer: message_endpoint and   *)
(* the inbound sink are as before, the attempt goes on (the task stays     *)
(* reading, no error is recorded), and the rest of the buffer is kept, so  *)
(* a frame behind it in the same chunk is processed next.                  *)
(***************************************************************************)
C23_UnusableFrameDropped ==
    [][\A frame \in UnusableFrames :
          Processes(frame) =>
              /\ message_endpoint' = message_endpoint
              /\ inbound' = inbound
              /\ task' = task
              /\ last_error' = last_error
              /\ chunks_read' = chunks_read]_vars

\* message 2 only comes in a chunk behind an unusable frame: it was
\* forwarded after that frame was dropped
C23_Witness ==
    /\ inbound = <<2>>
    /\ task.pc = "reading"
    /\ message_endpoint = None
    /\ last_error = ""

(***************************************************************************)
(* C24: message_endpoint begins as None; processing an endpoint frame      *)
(* whose data decodes sets it to that frame's URL, a later one replacing   *)
(* an earlier one; no other step changes it, so once set it is never None  *)
(* again: not after other frames, a failed attempt, a reconnect or close.  *)
(***************************************************************************)
\* the endpoint frames whose data decodes, with the URL each carries
DecodedEndpointUrl ==
    [f \in {TaggedEndpointFrame, TaggedEndpointFrame3} |->
        IF f = TaggedEndpointFrame THEN "http://b:1/message/u2"
        ELSE "http://b:1/message/u3"]

C24_MostRecentEndpoint ==
    /\ [](attempts = 0 => message_endpoint = None)
    /\ [][\A f \in DOMAIN DecodedEndpointUrl :
             Processes(f) => message_endpoint' = Some(DecodedEndpointUrl[f])]_vars
    /\ [][message_endpoint' # message_endpoint =>
             \E f \in DOMAIN DecodedEndpointUrl : Processes(f)]_vars
    /\ [][message_endpoint.some => message_endpoint'.some]_vars
    /\ [][ClientClose => message_endpoint' = message_endpoint]_vars

\* the URL of the second endpoint frame of a chunk, which replaced the
\* first one's during the first attempt, is still there in the second
\* attempt and after close
C24_Witness ==
    /\ message_endpoint = Some("http://b:1/message/u3")
    /\ attempts = 2
    /\ task.pc = "reading"
    /\ chunks_read = 0
    /\ close_results = <<"Ok">>

(***************************************************************************)
(* C25: server close does not stop the accept loop.  After a close has     *)
(* returned, GET / is still served whenever the registry mutex is free:    *)
(* the stream is registered under an id never used before and its writer   *)
(* writes the endpoint frame of that id; a send naming a registered id     *)
(* finds it and returns Ok; a send naming a drained id fails with          *)
(* UnknownClient.                                                          *)
(***************************************************************************)
CloseReturned == \E q \in CloseIds : close_calls[q].pc = "done"

C25_AcceptAfterClose ==
    /\ []((CloseReturned /\ registry_lock = NoHolder /\ CallsMade < MaxCalls)
             => ENABLED GetStream)
    /\ [][(CloseReturned /\ GetStream) =>
             /\ writer[next_id'] = "Unborn"
             /\ next_id' \notin clients
             /\ clients' = clients \cup {next_id'}
             /\ writer'[next_id'] = "Opening"]_vars
    /\ [][\A c \in ClientIds : (CloseReturned /\ WriterOpen(c, FALSE)) =>
             stream'[c] = <<"event: endpoint\ndata: http://b:1/message/"
                               \o ClientIdToString(c) \o "\n\n">>]_vars
    /\ [][\A p \in SendIds :
            /\ (SendStarts(p) /\ send_calls'[p].meta.kind = "ok"
                    /\ send_calls'[p].meta.client_id \in clients)
                  => send_calls'[p].pc = "send"
            /\ (send_calls[p].pc = "send" /\ send_calls'[p].pc = "done")
                  => send_calls'[p].result = "Ok"
            /\ (SendStarts(p) /\ send_calls'[p].meta.kind = "ok"
                    /\ WasDrained(send_calls'[p].meta.client_id))
                  => send_calls'[p].result = "UnknownClient"]_vars

\* a close drained client 1 and returned; client 2 connected afterwards,
\* has its endpoint frame, and a send to it returned Ok and is queued
C25_Witness ==
    /\ CloseReturned
    /\ WasDrained(1)
    /\ 2 \in clients
    /\ Len(stream[2]) >= 1
    /\ \E p \in SendIds :
          /\ send_calls[p].pc = "done"
          /\ send_calls[p].meta = [kind |-> "ok", client_id |-> 2]
          /\ send_calls[p].result = "Ok"

(***************************************************************************)
(* C26: nothing follows a shutdown event on its way to a client: not on    *)
(* the stream, not in the writer's hands, not in the channel.  A send      *)
(* never starts while a close is draining; a Transport event is only       *)
(* enqueued on a channel that holds no shutdown event yet; and a send      *)
(* that starts once the client's shutdown event was sent fails with        *)
(* UnknownClient.                                                          *)
(***************************************************************************)
\* what is on its way to client c, oldest first: the frames written, the
\* event the writer holds, the events queued
Pipeline(c) ==
    stream[c]
        \o (IF held[c] = NoEvent THEN <<>> ELSE <<to_sse_event(held[c])>>)
        \o [i \in 1..Len(client_rx[c]) |-> to_sse_event(client_rx[c][i])]

\* this step enqueues a Transport event for c
EnqueuesTransport(c) ==
    /\ Len(client_rx'[c]) = Len(client_rx[c]) + 1
    /\ client_rx'[c][Len(client_rx'[c])].tag = "Transport"

C26_NothingAfterShutdown ==
    /\ [](\A c \in ClientIds : \A i \in 1..Len(Pipeline(c)) :
            Pipeline(c)[i] = ServerShutdownFrame => i = Len(Pipeline(c)))
    /\ [][\A c \in ClientIds : EnqueuesTransport(c) =>
            (~ShutdownSent(c) /\ \A q \in CloseIds : close_calls[q].pc # "drain")]_vars
    /\ [][\A p \in SendIds :
            (SendStarts(p) /\ send_calls'[p].meta.kind = "ok") =>
                /\ \A q \in CloseIds : close_calls[q].pc # "drain"
                /\ ShutdownSent(send_calls'[p].meta.client_id) =>
                      /\ send_calls'[p].result = "UnknownClient"
                      /\ client_rx' = client_rx]_vars

\* a send to client 1 went on its stream before the shutdown frame, and a
\* send to client 1 after the close failed with UnknownClient
C26_Witness ==
    /\ Len(stream[1]) = 3
    /\ IsTransportFrame(stream[1][2])
    /\ stream[1][3] = ServerShutdownFrame
    /\ \E p \in SendIds :
          /\ send_calls[p].meta = [kind |-> "ok", client_id |-> 1]
          /\ send_calls[p].result = "UnknownClient"

(***************************************************************************)
(* C27: a client is in the registry from the moment its writer task        *)
(* exists, so before its endpoint frame is written.  Until a close is      *)
(* called, every client whose writer was spawned is registered, and a      *)
(* send that names a client that has read its endpoint frame passes the    *)
(* lookup: it does not fail with UnknownClient.                            *)
(***************************************************************************)
NoCloseCalled == \A q \in CloseIds : close_calls[q].pc = "idle"

C27_RegisteredBeforeEndpointFrame ==
    /\ [](\A c \in ClientIds :
            (NoCloseCalled /\ (writer[c] # "Unborn" \/ stream[c] # <<>>)) => c \in clients)
    /\ [][\A c \in ClientIds : writer[c] = "Unborn" /\ writer'[c] # "Unborn" =>
            (c \in clients' /\ stream'[c] = <<>>)]_vars
    /\ [][\A p \in SendIds :
            (/\ SendStarts(p)
             /\ send_calls'[p].meta.kind = "ok"
             /\ taken[send_calls'[p].meta.client_id] >= 1
             /\ NoCloseCalled)
                => /\ send_calls'[p].result # "UnknownClient"
                   /\ send_calls'[p].pc = "send"]_vars

\* client 1 has read its endpoint frame, no close was called, and a send to
\* client 1 has returned Ok
C27_Witness ==
    /\ NoCloseCalled
    /\ taken[1] >= 1
    /\ FrameType(stream[1][1]) = Some("endpoint")
    /\ \E p \in SendIds :
          /\ send_calls[p].pc = "done"
          /\ send_calls[p].meta = [kind |-> "ok", client_id |-> 1]
          /\ send_calls[p].result = "Ok"

(***************************************************************************)
(* C28: handling a POST leaves the registry, its mutex and every client    *)
(* channel as they are, and its outcome does not depend on them: a         *)
(* message posted to /message/{id} with a well-formed id that is not in    *)
(* the registry (never registered, or drained by a close) is put on the    *)
(* inbound sink with that client_id and answered 200.                      *)
(***************************************************************************)
\* the paths with a well-formed id, and the id of each
PostedIds == [path \in {"/message/u1", "/message/u9"} |->
                 IF path = "/message/u1" THEN 1 ELSE 9]

C28_PostIgnoresRegistry ==
    /\ [][server_vars' = server_vars
            \/ ~\E path \in Paths, body \in Bodies : HandleRequest("POST", path, body)]_vars
    /\ [][\A path \in DOMAIN PostedIds, m \in Messages :
             (/\ PostedIds[path] \notin clients
              /\ on_message_open
              /\ HandleRequest("POST", path, MessageJson(m)))
                => /\ response' = 200
                   /\ on_message' = Append(on_message,
                          [message |-> m, client_id |-> PostedIds[path]])]_vars

\* client 1 was registered and drained by a close that has returned; the
\* sink holds a message posted for an id never issued and one for client 1
C28_Witness ==
    /\ WasDrained(1)
    /\ \E q \in CloseIds : close_calls[q].pc = "done"
    /\ response = 200
    /\ on_message = <<[message |-> 1, client_id |-> 9], [message |-> 2, client_id |-> 1]>>

(***************************************************************************)
(* C29: the retry loop sleeps once after every failed attempt, the last    *)
(* one included, and not after a successful one: the sleeps made are the   *)
(* attempts that have failed and been slept off, a task that ends with an  *)
(* error has made retry_count attempts and retry_count sleeps, and a task  *)
(* that ends with Ok has made one sleep less than attempts.                *)
(***************************************************************************)
C29_SleepAfterEveryFailure ==
    /\ [](/\ task.pc = "idle" => sleeps = attempts
          /\ task.pc \in {"reading", "sleeping"} => sleeps = attempts - 1
          /\ (task.pc = "done" /\ task.result = "Ok") => sleeps = attempts - 1
          /\ (task.pc = "done" /\ task.result # "Ok") =>
                (sleeps = retry_count /\ attempts = retry_count))
    /\ [][task.pc = "sleeping" /\ task' # task =>
             (sleeps' = sleeps + 1 /\ task'.pc = "idle" /\ attempts' = attempts)]_vars
    /\ [][sleeps' # sleeps => (task.pc = "sleeping" /\ last_error # "")]_vars

\* every attempt failed: the task has ended with the last error after
\* retry_count sleeps
C29_Witness ==
    /\ task.pc = "done"
    /\ task.result = "ClosedUnexpectedly"
    /\ attempts = retry_count
    /\ sleeps = retry_count

====
